---- MODULE Spec2Model ----
(***************************************************************************)
(* Finite fields, polynomial arithmetic (poc/field.py) and the prefix and  *)
(* level utilities of the IDPF interface (poc/idpf.py).                     *)
(*                                                                         *)
(* The library is stateless: every operation is a call on immutable        *)
(* inputs.  The state is one call (`call`: the operation and its           *)
(* arguments), whether it has run (`pc`), and what it returned or raised   *)
(* (`ret`).                                                                *)
(*                                                                         *)
(* A field element is the integer as_unsigned() returns, in 0..MODULUS-1.  *)
(* A byte string is a sequence over 0..255.                                *)
(***************************************************************************)
EXTENDS Integers, Sequences, FiniteSets

VARIABLES call, ret, pc

vars == <<call, ret, pc>>

-----------------------------------------------------------------------------
(* Bounds of the model. *)

\* longest byte string handed to decode_vec / conditional_select
MaxBytes == 4
\* longest element vector handed to encode_vec
MaxVec == 3
\* largest bit count handed to the bit-vector codec
MaxBits == 3
\* longest coefficient list handed to poly_eval
MaxCoeffs == 3
\* largest number of interpolation points
MaxPoints == 3
\* largest BITS of an Idpf instance
MaxBITS == 4

-----------------------------------------------------------------------------
(* Results: a returned value, or the exception raised. *)

Ok(v) == [ok |-> TRUE, val |-> v, err |-> ""]

Err(e) == [ok |-> FALSE, val |-> <<>>, err |-> e]

\* all sequences over S of length at most n
SeqsUpTo(S, n) == UNION {[1..k -> S] : k \in 0..n}

-----------------------------------------------------------------------------
(* Python integer operators the code uses. *)

RECURSIVE Pow2(_)
\* 2 ** n
Pow2(n) == IF n = 0 THEN 1 ELSE 2 * Pow2(n - 1)

\* a >> n
Shr(a, n) == a \div Pow2(n)

\* a << n
Shl(a, n) == a * Pow2(n)

RECURSIVE BitAnd(_, _)
\* a & b
BitAnd(a, b) ==
    IF a = 0 \/ b = 0 THEN 0
    ELSE (IF a % 2 = 1 /\ b % 2 = 1 THEN 1 ELSE 0) + 2 * BitAnd(a \div 2, b \div 2)

RECURSIVE BitOr(_, _)
\* a | b
BitOr(a, b) ==
    IF a = 0 THEN b
    ELSE IF b = 0 THEN a
    ELSE (IF a % 2 = 1 \/ b % 2 = 1 THEN 1 ELSE 0) + 2 * BitOr(a \div 2, b \div 2)

RECURSIVE to_le_bytes(_, _)
\* common.to_le_bytes: the `length`-byte little-endian encoding of val
to_le_bytes(val, length) ==
    IF length = 0 THEN <<>>
    ELSE <<val % 256>> \o to_le_bytes(val \div 256, length - 1)

RECURSIVE from_le_bytes(_)
\* common.from_le_bytes: the integer a little-endian byte string encodes
from_le_bytes(encoded) ==
    IF encoded = <<>> THEN 0
    ELSE Head(encoded) + 256 * from_le_bytes(Tail(encoded))

-----------------------------------------------------------------------------
(* The fields.  A field type is its class constants.  Field2 is the code's *)
(* own.  Field64, Field96, Field128 and Field255 have moduli beyond the    *)
(* model checker's integers; Field5 and Field257 stand for them: primes of *)
(* the same shape 2^a * b + 1, one with a one-byte and one with a two-byte *)
(* encoding whose top byte is only partly used, as in the code's fields.   *)

Field2 == [name |-> "Field2", MODULUS |-> 2, ENCODED_SIZE |-> 1]

Field5 == [name |-> "Field5", MODULUS |-> 5, ENCODED_SIZE |-> 1]

Field257 == [name |-> "Field257", MODULUS |-> 257, ENCODED_SIZE |-> 2]

Fields == {Field2, Field5, Field257}

\* the element values the inputs are drawn from
Elems(F) == {v \in {0, 1, 2, 3, 4, 255, 256} : v < F.MODULUS}

\* the byte values the inputs are drawn from
Bytes == {0, 1, 4, 5, 255}

\* Field.__init__: the assertion `int(val) < MODULUS`
FieldAssert(F, val) == val < F.MODULUS

\* Field.__init__: self.val = gf(val)
gf(F, val) == val % F.MODULUS

\* Field.__add__
FAdd(F, a, b) == gf(F, a + b)

\* Field.__neg__
FNeg(F, a) == gf(F, 0 - a)

\* Field.__sub__
FSub(F, a, b) == FAdd(F, a, FNeg(F, b))

\* Field.__mul__
FMul(F, a, b) == gf(F, a * b)

\* Field.inv, on a non-zero element
FInv(F, a) == CHOOSE i \in 1..(F.MODULUS - 1) : gf(F, a * i) = 1

\* Field.as_unsigned
as_unsigned(F, x) == gf(F, x)

-----------------------------------------------------------------------------
(* Field.encode_vec / Field.decode_vec *)

RECURSIVE encode_vec_rev(_, _)
\* encode_vec with each element's bytes put in front of the output
encode_vec_rev(F, vec) ==
    IF vec = <<>> THEN <<>>
    ELSE encode_vec_rev(F, Tail(vec))
         \o to_le_bytes(as_unsigned(F, Head(vec)), F.ENCODED_SIZE)

RECURSIVE encode_vec(_, _)
encode_vec(F, vec) ==
    IF vec = <<>> THEN <<>>
    ELSE to_le_bytes(as_unsigned(F, Head(vec)), F.ENCODED_SIZE)
         \o encode_vec(F, Tail(vec))

RECURSIVE decode_loop(_, _, _, _)
\* the loop of decode_vec from byte offset i, with vec decoded so far
decode_loop(F, encoded, i, vec) ==
    IF i >= Len(encoded) THEN Ok(vec)
    ELSE LET L == F.ENCODED_SIZE
             hi == IF i + L <= Len(encoded) THEN i + L ELSE Len(encoded)
             x == from_le_bytes(SubSeq(encoded, i + 1, hi))
         IN  IF x >= F.MODULUS THEN Err("ValueError")
             ELSE IF ~FieldAssert(F, x) THEN Err("AssertionError")
             ELSE decode_loop(F, encoded, i + L, Append(vec, gf(F, x)))

\* decode_vec without the length check
decode_vec_nolen(F, encoded) == decode_loop(F, encoded, 0, <<>>)

decode_vec(F, encoded) ==
    IF Len(encoded) % F.ENCODED_SIZE # 0 THEN Err("ValueError")
    ELSE decode_loop(F, encoded, 0, <<>>)

-----------------------------------------------------------------------------
(* Field.encode_into_bit_vector / Field.decode_from_bit_vector *)

RECURSIVE encode_bits_loop(_, _, _, _, _)
\* the loop of encode_into_bit_vector from position l
encode_bits_loop(F, val, bits, l, encoded) ==
    IF l >= bits THEN Ok(encoded)
    ELSE LET b == BitAnd(Shr(val, l), 1)
         IN  IF ~FieldAssert(F, b) THEN Err("AssertionError")
             ELSE encode_bits_loop(F, val, bits, l + 1, Append(encoded, gf(F, b)))

\* encode_into_bit_vector with the most significant bit first
encode_into_bit_vector_msb(F, val, bits) ==
    IF val >= Pow2(bits) THEN Err("ValueError")
    ELSE Ok([l \in 1..bits |-> BitAnd(Shr(val, bits - l), 1)])

encode_into_bit_vector(F, val, bits) ==
    IF val >= Pow2(bits) THEN Err("ValueError")
    ELSE encode_bits_loop(F, val, bits, 0, <<>>)

RECURSIVE decode_bits_loop(_, _, _, _)
\* the loop of decode_from_bit_vector from position l
decode_bits_loop(F, vec, l, decoded) ==
    IF l >= Len(vec) THEN Ok(decoded)
    ELSE IF ~FieldAssert(F, Shl(1, l)) THEN Err("AssertionError")
    ELSE decode_bits_loop(F, vec, l + 1,
                          FAdd(F, decoded, FMul(F, gf(F, Shl(1, l)), vec[l + 1])))

\* decode_from_bit_vector with the guard one bit too permissive
decode_from_bit_vector_wide(F, vec) ==
    IF Len(vec) > 0 /\ Shr(F.MODULUS, Len(vec) - 1) = 0 THEN Err("ValueError")
    ELSE decode_bits_loop(F, vec, 0, gf(F, 0))

decode_from_bit_vector(F, vec) ==
    IF Shr(F.MODULUS, Len(vec)) = 0 THEN Err("ValueError")
    ELSE IF ~FieldAssert(F, 0) THEN Err("AssertionError")
    ELSE decode_bits_loop(F, vec, 0, gf(F, 0))

-----------------------------------------------------------------------------
(* Field2.conditional_select *)

RECURSIVE select_mask(_, _)
\* m after n rounds of `m |= v << i`
select_mask(v, n) ==
    IF n = 0 THEN 0 ELSE BitOr(select_mask(v, n - 1), Shl(v, n - 1))

\* the bitmask with the value bit spread over seven bit positions only
bitmask_7(e) == select_mask(as_unsigned(Field2, e), 7)

\* the bitmask m: `for i in range(8): m |= v << i`
bitmask(e) == select_mask(as_unsigned(Field2, e), 8)

\* bytes(map(lambda x: m & x, inp))
conditional_select(e, inp) ==
    [i \in 1..Len(inp) |-> BitAnd(bitmask(e), inp[i])]

-----------------------------------------------------------------------------
(* The calls on a field. *)

\* ret before the call has run
NoResult == Err("pending")

EncodeVecCalls ==
    UNION {{[op |-> "encode_vec", field |-> F, vec |-> vec] :
            vec \in SeqsUpTo(Elems(F), MaxVec)} : F \in Fields}

DecodeVecCalls ==
    {[op |-> "decode_vec", field |-> F, encoded |-> encoded] :
        F \in Fields, encoded \in SeqsUpTo(Bytes, MaxBytes)}

EncodeIntoBitVectorCalls ==
    {[op |-> "encode_into_bit_vector", field |-> F, val |-> val, bits |-> bits] :
        F \in Fields, val \in 0..Pow2(MaxBits), bits \in 0..MaxBits}

DecodeFromBitVectorCalls ==
    UNION {{[op |-> "decode_from_bit_vector", field |-> F, vec |-> vec] :
            vec \in SeqsUpTo({v \in 0..2 : v < F.MODULUS}, MaxBits)} : F \in Fields}

ConditionalSelectCalls ==
    {[op |-> "conditional_select", field |-> Field2, e |-> e, inp |-> inp] :
        e \in Elems(Field2), inp \in SeqsUpTo(Bytes \cup {165}, MaxBytes)}

InitField ==
    /\ call \in EncodeVecCalls \cup DecodeVecCalls \cup EncodeIntoBitVectorCalls
                \cup DecodeFromBitVectorCalls \cup ConditionalSelectCalls
    /\ ret = NoResult
    /\ pc = "call"

EncodeVec ==
    /\ pc = "call" /\ call.op = "encode_vec"
    /\ ret' = Ok(encode_vec(call.field, call.vec))
    /\ pc' = "done"
    /\ UNCHANGED call

DecodeVec ==
    /\ pc = "call" /\ call.op = "decode_vec"
    /\ ret' = decode_vec(call.field, call.encoded)
    /\ pc' = "done"
    /\ UNCHANGED call

EncodeIntoBitVector ==
    /\ pc = "call" /\ call.op = "encode_into_bit_vector"
    /\ ret' = encode_into_bit_vector(call.field, call.val, call.bits)
    /\ pc' = "done"
    /\ UNCHANGED call

DecodeFromBitVector ==
    /\ pc = "call" /\ call.op = "decode_from_bit_vector"
    /\ ret' = decode_from_bit_vector(call.field, call.vec)
    /\ pc' = "done"
    /\ UNCHANGED call

ConditionalSelect ==
    /\ pc = "call" /\ call.op = "conditional_select"
    /\ ret' = Ok(conditional_select(call.e, call.inp))
    /\ pc' = "done"
    /\ UNCHANGED call

NextField ==
    \/ EncodeVec
    \/ DecodeVec
    \/ EncodeIntoBitVector
    \/ DecodeFromBitVector
    \/ ConditionalSelect

SpecField == InitField /\ [][NextField]_vars

-----------------------------------------------------------------------------
(* Polynomial arithmetic.  A polynomial is its coefficient list, lowest     *)
(* degree first.                                                            *)

poly_strip(F, p) ==
    LET nz == {i \in 1..Len(p) : p[i] # gf(F, 0)}
    IN  IF nz = {} THEN <<>>
        ELSE SubSeq(p, 1, CHOOSE i \in nz : \A j \in nz : j <= i)

RECURSIVE horner(_, _, _, _, _)
\* the loop of poly_eval over p[i], p[i-1], ..., p[1]
horner(F, p, i, result, eval_at) ==
    IF i = 0 THEN result
    ELSE horner(F, p, i - 1, FAdd(F, FMul(F, result, eval_at), p[i]), eval_at)

poly_eval(F, p, eval_at) ==
    IF Len(p) = 0 THEN Ok(gf(F, 0))
    ELSE LET s == poly_strip(F, p)
         IN  IF Len(s) = 0 THEN Err("IndexError")
             ELSE Ok(horner(F, s, Len(s) - 1, s[Len(s)], eval_at))

\* p * (x - a), as a dense coefficient list
MulLinear(F, p, a) ==
    [n \in 1..(Len(p) + 1) |->
        FSub(F, IF n > 1 THEN p[n - 1] ELSE 0,
                FMul(F, a, IF n <= Len(p) THEN p[n] ELSE 0))]

RECURSIVE BasisNumer(_, _, _, _)
\* the product of (x - xs[m]) over m in 1..j, m # i
BasisNumer(F, xs, i, j) ==
    IF j = 0 THEN <<gf(F, 1)>>
    ELSE IF j = i THEN BasisNumer(F, xs, i, j - 1)
    ELSE MulLinear(F, BasisNumer(F, xs, i, j - 1), xs[j])

RECURSIVE BasisDenom(_, _, _, _)
\* the product of (xs[i] - xs[m]) over m in 1..j, m # i
BasisDenom(F, xs, i, j) ==
    IF j = 0 THEN gf(F, 1)
    ELSE IF j = i THEN BasisDenom(F, xs, i, j - 1)
    ELSE FMul(F, BasisDenom(F, xs, i, j - 1), FSub(F, xs[i], xs[j]))

RECURSIVE LagrangeSum(_, _, _, _)
\* the sum over m in 1..i of ys[m] * (m-th Lagrange basis polynomial)
LagrangeSum(F, xs, ys, i) ==
    IF i = 0 THEN [n \in 1..Len(xs) |-> gf(F, 0)]
    ELSE LET prev == LagrangeSum(F, xs, ys, i - 1)
             numer == BasisNumer(F, xs, i, Len(xs))
             coef == FMul(F, ys[i], FInv(F, BasisDenom(F, xs, i, Len(xs))))
         IN  [n \in 1..Len(xs) |-> FAdd(F, prev[n], FMul(F, coef, numer[n]))]

\* sage: R.lagrange_polynomial(points), the interpolant of degree < len(points),
\* here as its coefficients of degree 0..len(points)-1
lagrange_polynomial(F, xs, ys) == LagrangeSum(F, xs, ys, Len(xs))

\* sage: p.coefficients(), i.e. sparse=True: the non-zero coefficients only,
\* in increasing order of degree
coefficients(p) == SelectSeq(p, LAMBDA c : c # 0)

poly_interp(F, xs, ys) ==
    poly_strip(F, coefficients(lagrange_polynomial(F, xs, ys)))

\* the element values the polynomial inputs are drawn from
PolyElems(F) == {v \in {0, 1, 2, F.MODULUS - 1} : v < F.MODULUS}

\* lists of k pairwise distinct points
DistinctSeqs(S, k) ==
    {xs \in [1..k -> S] : \A i, j \in 1..k : i # j => xs[i] # xs[j]}

PolyEvalCalls ==
    UNION {{[op |-> "poly_eval", field |-> F, p |-> p, eval_at |-> x] :
            p \in SeqsUpTo(PolyElems(F), MaxCoeffs), x \in PolyElems(F)} :
           F \in Fields}

PolyInterpCalls ==
    UNION {UNION {{[op |-> "poly_interp", field |-> F, xs |-> xs, ys |-> ys] :
                   xs \in DistinctSeqs(PolyElems(F), k),
                   ys \in [1..k -> PolyElems(F)]} :
                  k \in 0..MaxPoints} : F \in Fields}

InitPoly ==
    /\ call \in PolyEvalCalls \cup PolyInterpCalls
    /\ ret = NoResult
    /\ pc = "call"

PolyEval ==
    /\ pc = "call" /\ call.op = "poly_eval"
    /\ ret' = poly_eval(call.field, call.p, call.eval_at)
    /\ pc' = "done"
    /\ UNCHANGED call

PolyInterp ==
    /\ pc = "call" /\ call.op = "poly_interp"
    /\ ret' = Ok(poly_interp(call.field, call.xs, call.ys))
    /\ pc' = "done"
    /\ UNCHANGED call

NextPoly ==
    \/ PolyEval
    \/ PolyInterp

SpecPoly == InitPoly /\ [][NextPoly]_vars

-----------------------------------------------------------------------------
(* Idpf.current_field / Idpf.is_prefix, of an instance with the given BITS *)

\* current_field with the boundary at BITS
current_field_bits(BITS, level) ==
    IF level < BITS THEN "field_inner" ELSE "field_leaf"

current_field(BITS, level) ==
    IF level < BITS - 1 THEN "field_inner" ELSE "field_leaf"

is_prefix(BITS, x, y, level) == Shr(y, BITS - 1 - level) = x

CurrentFieldCalls ==
    {[op |-> "current_field", BITS |-> BITS, level |-> level] :
        BITS \in 1..MaxBITS, level \in 0..MaxBITS}

IsPrefixCalls ==
    UNION {{[op |-> "is_prefix", BITS |-> BITS, x |-> x, y |-> y, level |-> level] :
            x \in 0..(Pow2(BITS) - 1), y \in 0..(Pow2(BITS) - 1),
            level \in 0..(BITS - 1)} : BITS \in 1..MaxBITS}

InitIdpf ==
    /\ call \in CurrentFieldCalls \cup IsPrefixCalls
    /\ ret = NoResult
    /\ pc = "call"

CurrentField ==
    /\ pc = "call" /\ call.op = "current_field"
    /\ ret' = Ok(current_field(call.BITS, call.level))
    /\ pc' = "done"
    /\ UNCHANGED call

IsPrefix ==
    /\ pc = "call" /\ call.op = "is_prefix"
    /\ ret' = Ok(is_prefix(call.BITS, call.x, call.y, call.level))
    /\ pc' = "done"
    /\ UNCHANGED call

NextIdpf ==
    \/ CurrentField
    \/ IsPrefix

SpecIdpf == InitIdpf /\ [][NextIdpf]_vars

-----------------------------------------------------------------------------
(* The whole library. *)

Init == InitField \/ InitPoly \/ InitIdpf

Next == NextField \/ NextPoly \/ NextIdpf

Spec == Init /\ [][Next]_vars

-----------------------------------------------------------------------------
(* Encoding claims. *)

\* the call has run and was a call of o
Done(o) == pc = "done" /\ call.op = o

\* the integer the k-th (from 0) ENCODED_SIZE-byte chunk of b holds
ChunkInt(F, b, k) ==
    LET L == F.ENCODED_SIZE
        d[j \in 0..L] == IF j = L THEN 0 ELSE b[k * L + j + 1] + 256 * d[j + 1]
    IN  d[0]

\* the number of whole chunks of b
Chunks(F, b) == Len(b) \div F.ENCODED_SIZE

\* b is a whole number of chunks, each below the modulus
Canonical(F, b) ==
    /\ Len(b) % F.ENCODED_SIZE = 0
    /\ \A k \in 0..(Chunks(F, b) - 1) : ChunkInt(F, b, k) < F.MODULUS

\* C5: decoding what encode_vec returned gives back the vector, and encoding
\* what decode_vec made of a canonical byte string gives back the string.
C5_RoundTrip ==
    /\ Done("encode_vec") =>
           decode_vec(call.field, ret.val) = Ok(call.vec)
    /\ (Done("decode_vec") /\ Canonical(call.field, call.encoded)) =>
           ret.ok /\ encode_vec(call.field, ret.val) = call.encoded

C5_Witness ==
    /\ Done("encode_vec")
    /\ call.field = Field257
    /\ call.vec = <<256, 1>>
    /\ ret.val = <<0, 1, 1, 0>>

\* C6: decode_vec raises exactly on a length that is no multiple of
\* ENCODED_SIZE or a chunk holding an integer >= MODULUS; otherwise it returns
\* one element per chunk, in input order.
C6_DecodeVecErrors ==
    Done("decode_vec") =>
        LET F == call.field
            b == call.encoded
        IN  /\ ~ret.ok <=> ~Canonical(F, b)
            /\ ~ret.ok => ret.val = <<>> /\ ret.err = "ValueError"
            /\ ret.ok => /\ Len(ret.val) = Chunks(F, b)
                         /\ \A k \in 0..(Chunks(F, b) - 1) :
                                ret.val[k + 1] = ChunkInt(F, b, k)

C6_Witness ==
    /\ Done("decode_vec")
    /\ call.field = Field257
    /\ call.encoded = <<255, 0, 1, 1>>
    /\ ~ret.ok

\* C7: for v < 2^bits < MODULUS, decoding the bit vector of v succeeds and
\* gives the element whose unsigned value is v.
C7_BitVectorRoundTrip ==
    (/\ Done("encode_into_bit_vector")
     /\ call.val < Pow2(call.bits)
     /\ call.field.MODULUS > Pow2(call.bits)) =>
        /\ ret.ok
        /\ decode_from_bit_vector(call.field, ret.val) = Ok(call.val)
        /\ call.val < call.field.MODULUS

C7_Witness ==
    /\ Done("encode_into_bit_vector")
    /\ call.field = Field5
    /\ call.bits = 2
    /\ call.val = 3
    /\ ret.ok

RECURSIVE BitSum(_)
\* the sum of vec[l] * 2^l over the integers
BitSum(vec) == IF vec = <<>> THEN 0 ELSE Head(vec) + 2 * BitSum(Tail(vec))

\* C8: encode_into_bit_vector raises exactly when val >= 2^bits and otherwise
\* returns the bits of val, least significant first; decode_from_bit_vector
\* raises exactly when MODULUS >> len(vec) == 0, and on a 0/1 vector it
\* accepts, the result is the integer sum of vec[l] * 2^l.
C8_BitVectorErrors ==
    /\ Done("encode_into_bit_vector") =>
           /\ ~ret.ok <=> call.val >= Pow2(call.bits)
           /\ ret.ok => /\ Len(ret.val) = call.bits
                        /\ \A l \in 0..(call.bits - 1) :
                               ret.val[l + 1] = (call.val \div Pow2(l)) % 2
    /\ Done("decode_from_bit_vector") =>
           /\ ~ret.ok <=> call.field.MODULUS \div Pow2(Len(call.vec)) = 0
           /\ (ret.ok /\ \A l \in 1..Len(call.vec) : call.vec[l] \in {0, 1}) =>
                  ret.val = BitSum(call.vec)

C8_Witness ==
    /\ Done("decode_from_bit_vector")
    /\ call.field = Field5
    /\ call.vec = <<1, 1>>
    /\ ret = Ok(3)

\* C9: conditional_select returns inp when the element is 1 and as many zero
\* bytes when it is 0; the mask is 255 or 0.
C9_ConditionalSelect ==
    Done("conditional_select") =>
        /\ call.e = 1 => ret.val = call.inp /\ bitmask(call.e) = 255
        /\ call.e = 0 => /\ ret.val = [i \in 1..Len(call.inp) |-> 0]
                         /\ bitmask(call.e) = 0

C9_Witness ==
    /\ Done("conditional_select")
    /\ call.e = 1
    /\ call.inp = <<255, 0, 165>>
    /\ ret.val = <<255, 0, 165>>

-----------------------------------------------------------------------------
(* Polynomial claims. *)

RECURSIVE PolySum(_, _, _, _)
\* the sum of p[i+1] * x^i, with xp = x^(Len(p) - Len(rest)) carried along
PolySum(F, rest, x, xp) ==
    IF rest = <<>> THEN 0
    ELSE (Head(rest) * xp + PolySum(F, Tail(rest), x, (xp * x) % F.MODULUS))
         % F.MODULUS

\* C2: the interpolant takes the value ys[i] at every xs[i], is stripped and
\* has at most k coefficients.
C2_Interpolates ==
    Done("poly_interp") =>
        LET F == call.field
            p == ret.val
        IN  /\ \A i \in 1..Len(call.xs) :
                   poly_eval(F, p, call.xs[i]) = Ok(call.ys[i])
            /\ Len(p) <= Len(call.xs)
            /\ p = <<>> \/ p[Len(p)] # 0

\* C3: poly_eval never raises and returns the sum of p[i] * x^i, the field
\* zero when p strips to the empty polynomial.
C3_PolyEval ==
    Done("poly_eval") =>
        /\ ret.ok
        /\ ret.val = PolySum(call.field, call.p, call.eval_at, 1)

-----------------------------------------------------------------------------
(* Idpf claims. *)

\* C1: is_prefix(x, y, level) holds exactly when the top `level` bits of the
\* BITS-bit y are the low `level` bits of x.
C1_IsPrefix ==
    Done("is_prefix") =>
        (ret.val <=> (call.y \div Pow2(call.BITS - call.level))
                         = call.x % Pow2(call.level))

C10_OneLegalPrefix ==
    Done("is_prefix") =>
        Cardinality({x \in 0..(Pow2(call.level) - 1) :
                        is_prefix(call.BITS, x, call.y, call.level)}) = 1

====
